---- MODULE Spec2Model ----
(***************************************************************************)
(* Artifyy AI: the photo session of PhotoAITab (the same handlers as App), *)
(* with the cropper (ImageCropper), the analysis panel (AnalysisPanel) and *)
(* the result panel (ResultDisplay) it mounts, and the chat of AgentTab.   *)
(*                                                                         *)
(* One step of the model is one run of the event loop: a user event        *)
(* handler up to its first await, or the continuation of a handler after   *)
(* its awaited promise settled.  All setState calls of one such run are    *)
(* committed together and the component re-renders before the next run.    *)
(* A continuation reads the values its closure captured when the handler   *)
(* was invoked, so every outstanding call carries those captured values.   *)
(***************************************************************************)
EXTENDS Integers, Sequences, FiniteSets, Bags

\* ---------------------------------------------------------------- bounds
NumImages == 2        \* distinct image contents
MaxHistory == 3       \* longest imageHistory a panel edit may produce
MaxCalls == 2         \* promises outstanding at the same time
MaxLiveCalls == 3     \* the same, where progress is checked
MaxCoord == 5         \* pointer coordinates range over -1..MaxCoord

Images == 1..NumImages
Null == 0             \* null image
NullStr == "<null>"   \* null string (error === null)
EmptyStr == ""

\* ---------------------------------------------------------------- values
IDLE == "IDLE"
GENERATING == "GENERATING"
PREVIEW == "PREVIEW"
CROPPING == "CROPPING"
ANALYZING == "ANALYZING"
AWAITING_CONFIRMATION == "AWAITING_CONFIRMATION"
ENHANCING == "ENHANCING"
DONE == "DONE"
ERROR == "ERROR"

AppState ==
  {IDLE, GENERATING, PREVIEW, CROPPING, ANALYZING, AWAITING_CONFIRMATION,
   ENHANCING, DONE, ERROR}

MsgInvalidFile == "Please upload a valid image file."
MsgLoadUnknown == "An unknown error occurred while loading the image."
MsgGenerate == "Failed to generate image from prompt."
MsgAnalyze == "Failed to analyze image. Please try another one."
MsgEnhance == "Failed to enhance image. The model may not be suitable for this type of photo."
MsgEnhanceSafety == "The AI failed to generate an image. This might be due to safety filters. Please try a different image or adjust your selections."
MsgIdeas == "Failed to generate creative ideas for this image."
MsgStyle == "Failed to apply creative edit."
MsgBlur == "Failed to apply background blur."

\* A File: its media type split at "/", its name split at ".", its content.
Files ==
  {[type |-> <<"image", "png">>, name |-> <<"photo", "png">>, data |-> i] : i \in Images}
  \cup {[type |-> <<"image", "jpeg">>, name |-> <<"scan">>, data |-> 1],
        [type |-> <<"application", "pdf">>, name |-> <<"doc", "pdf">>, data |-> 1]}

\* Text typed into the generation prompt, as a sequence of characters.
Prompts == {<<>>, <<" ">>, <<"A", " ", "b">>}

\* What analyzeImage can return for an image: the analysis text is written as the
\* image it describes (the empty text is <<>>); the suggestion list is the
\* service's choice.
SuggestionLists == {<<"s1">>, <<"s1", "s2">>, <<"s1", "s1">>}
AnalysisOf(img) == <<img>>
SuggestionTexts == {"s1", "s2"}

\* ---------------------------------------------------------------- state
VARIABLES
  appState, error, originalImage, imageToProcess, originalFilename,
  imageHistory, currentImageIndex, analysis, suggestions, enhancementSummary,
  generationPrompt,
  panel,      \* ResultDisplay's own state while it is mounted
  cropper,    \* ImageCropper's own state while it is mounted
  comparator, \* ImageComparator's own state while it is mounted
  pointer,    \* the pointer as the comparator's last event saw it
  canvas,     \* what the last run of handleConfirmCrop drew and exported
  settings,   \* AnalysisPanel's strength, detail level and save-settings box
  selectedSuggestions, \* AnalysisPanel's checked suggestions, in click order
  storage,    \* localStorage's entry under SETTINGS_KEY
  chat,       \* AgentTab's state and the response stream it is reading
  calls,      \* bag of outstanding promises with what their closures captured
  budget,     \* promises the specification lets be outstanding together
  ev          \* the handler or continuation that ran last

session ==
  <<appState, error, originalImage, imageToProcess, originalFilename,
    imageHistory, currentImageIndex, analysis, suggestions, enhancementSummary,
    generationPrompt>>
vars ==
  <<session, panel, cropper, comparator, pointer, canvas, settings,
    selectedSuggestions, storage, chat, calls, budget, ev>>


\* ---------------------------------------------------------------- helpers
Min(a, b) == IF a < b THEN a ELSE b

\* Array.prototype.slice(0, n) for n >= 0
Slice(s, n) == SubSeq(s, 1, Min(n, Len(s)))

\* file.type.startsWith('image/')
\* variant: accepts every type of the form x/y
StartsWithImageAnyType(type) == Len(type) = 2

StartsWithImage(type) == type[1] = "image"

\* parts.join('.')
RECURSIVE Join(_)
Join(parts) ==
  IF parts = <<>> THEN <<>>
  ELSE IF Len(parts) = 1 THEN (IF parts[1] = EmptyStr THEN <<>> ELSE <<parts[1]>>)
  ELSE (IF parts[1] = EmptyStr THEN <<>> ELSE <<parts[1]>>) \o <<".">> \o Join(Tail(parts))

\* file.name.split('.').slice(0, -1).join('.') || file.name
NameWithoutExtension(name) ==
  LET stem == Join(SubSeq(name, 1, Len(name) - 1))
  IN IF stem = <<>> THEN Join(name) ELSE stem

IsSpace(ch) == ch = " "

RECURSIVE TrimStart(_)
TrimStart(s) ==
  IF s # <<>> /\ IsSpace(Head(s)) THEN TrimStart(Tail(s)) ELSE s

RECURSIVE TrimEnd(_)
TrimEnd(s) ==
  IF s # <<>> /\ IsSpace(s[Len(s)]) THEN TrimEnd(SubSeq(s, 1, Len(s) - 1)) ELSE s

\* String.prototype.trim
Trim(s) == TrimEnd(TrimStart(s))

\* String.prototype.toLowerCase, on the characters the prompts use
ToLower(ch) == IF ch = "A" THEN "a" ELSE ch

\* replace(/\s+/g, '-'): every maximal run of whitespace becomes one dash
RECURSIVE DashSpaces(_)
DashSpaces(s) ==
  IF s = <<>> THEN <<>>
  ELSE IF IsSpace(Head(s)) THEN <<"-">> \o DashSpaces(TrimStart(s))
  ELSE <<Head(s)>> \o DashSpaces(Tail(s))

SlugMaxLen == 50

\* generationPrompt.trim().toLowerCase().replace(/\s+/g, '-').slice(0, 50)
Slug(prompt) ==
  LET t == Trim(prompt)
      lower == [i \in 1..Len(t) |-> ToLower(t[i])]
  IN Slice(DashSpaces(lower), SlugMaxLen)

\* `Here are the enhancements I've made:\n\n* ${selectedSuggestions.join('\n* ')}`
SummaryText(sel) == <<"Here are the enhancements I've made:">> \o sel

Range(s) == {s[i] : i \in DOMAIN s}

\* imageHistory[currentImageIndex] ?? null
EnhancedImageOf(hist, idx) ==
  IF idx + 1 \in DOMAIN hist THEN hist[idx + 1] ELSE Null

enhancedImage == EnhancedImageOf(imageHistory, currentImageIndex)
canUndo == currentImageIndex > 0

\* renderContent: which child components are on screen
UploaderRendered == appState = IDLE
PreviewRendered == appState = PREVIEW /\ imageToProcess # Null
CropperMounted == appState = CROPPING /\ originalImage # Null
\* variant: the panel is also rendered while the analysis runs
AnalysisPanelRenderedWhileAnalyzing ==
  appState \in {ANALYZING, AWAITING_CONFIRMATION} /\ imageToProcess # Null
AnalysisPanelRendered == appState = AWAITING_CONFIRMATION /\ imageToProcess # Null
ResultDisplayMounted == appState = DONE /\ imageToProcess # Null /\ enhancedImage # Null
ErrorRendered == appState = ERROR

\* renderContent dereferences imageToProcess!.url in these two states: with a
\* null image the render throws and React removes the whole tree, after which
\* no handler can run and no setState has an effect.
Crashed ==
  appState \in {AWAITING_CONFIRMATION, ENHANCING} /\ imageToProcess = Null

\* EnhancementStrength
SUBTLE == "Subtle"
NATURAL == "Natural"
STRONG == "Strong"
Strengths == {SUBTLE, NATURAL, STRONG}
\* positions of the detail slider (min 0, max 100)
DetailLevels == {0, 50, 75, 100}
DefaultDetail == 50

InitSettings == [strength |-> NATURAL, detailLevel |-> DefaultDetail, saveSettings |-> FALSE]

\* localStorage.getItem gives null: no entry
NoEntry == <<>>
\* JSON.stringify({strength, detailLevel}): the text, as its keys and values
Stringify(s) == <<"strength", s.strength, "detailLevel", s.detailLevel>>
\* JSON.parse of an entry
Parse(text) ==
  [k \in {text[i] : i \in {j \in DOMAIN text : j % 2 = 1}} |->
     text[(CHOOSE i \in DOMAIN text : i % 2 = 1 /\ text[i] = k) + 1]]

\* variant: the stored values are loaded but the box stays unchecked
LoadedUnchecked(entry) ==
  IF entry # NoEntry
    THEN [strength |-> Parse(entry)["strength"],
          detailLevel |-> Parse(entry)["detailLevel"], saveSettings |-> FALSE]
    ELSE InitSettings

\* AnalysisPanel after its mount effect has read the entry
Loaded(entry) ==
  IF entry # NoEntry
    THEN [strength |-> Parse(entry)["strength"],
          detailLevel |-> Parse(entry)["detailLevel"], saveSettings |-> TRUE]
    ELSE InitSettings

InitPanel ==
  [creativeState |-> "idle", creativeIdeas |-> <<>>, creativeError |-> NullStr,
   isApplyingCustomPrompt |-> FALSE, isApplyingBlur |-> FALSE]

\* A percentage is kept as the exact fraction <<numerator, denominator>> in
\* lowest terms with a positive denominator.
Max(a, b) == IF a > b THEN a ELSE b
Abs(a) == IF a < 0 THEN -a ELSE a

RECURSIVE GCD(_, _)
GCD(a, b) == IF b = 0 THEN a ELSE GCD(b, a % b)

\* (part / whole) * 100, for whole > 0
Percent(part, whole) ==
  LET g == GCD(Abs(100 * part), whole)
  IN <<(100 * part) \div g, whole \div g>>

Fifty == Percent(1, 2)

InitComparator ==
  [sliderPosition |-> Fifty, isDragging |-> FALSE, isZoomed |-> FALSE,
   transformOrigin |-> <<Fifty, Fifty>>]

\* getBoundingClientRect() of the comparator's container
Rects ==
  {[left |-> 0, top |-> 0, width |-> 4, height |-> 2],
   [left |-> 1, top |-> 0, width |-> 2, height |-> 1]}
Coords == -1..MaxCoord

\* over: the mouse pointer is over the container
NoPointer ==
  [clientX |-> 0, clientY |-> 0, rect |-> [left |-> 0, top |-> 0, width |-> 4, height |-> 2],
   over |-> FALSE]

\* Exact arithmetic on fractions <<numerator, denominator>> in lowest terms.
Frac(n, d) ==
  LET g == GCD(Abs(n), d)
  IN <<n \div g, d \div g>>
Times(a, b) == Frac(a[1] * b[1], a[2] * b[2])
Plus(a, b) == Frac(a[1] * b[2] + b[1] * a[2], a[2] * b[2])
LessEq(a, b) == a[1] * b[2] <= b[1] * a[2]
Floor(a) == a[1] \div a[2]

\* The <img> of the cropper once loaded: its layout size (width, height) and
\* the size of the picture itself.  Small pictures are shown at their own
\* size, larger ones are scaled down.
Displays ==
  {[width |-> 200, height |-> 200, naturalWidth |-> 400, naturalHeight |-> 400],
   [width |-> 100, height |-> 100, naturalWidth |-> 300, naturalHeight |-> 300],
   [width |-> 50, height |-> 50, naturalWidth |-> 50, naturalHeight |-> 50],
   [width |-> 200, height |-> 100, naturalWidth |-> 300, naturalHeight |-> 150]}
NoDisplay == [width |-> 0, height |-> 0, naturalWidth |-> 0, naturalHeight |-> 0]

\* useState<Crop>(): no selection
NoCrop ==
  [unit |-> "none", x |-> <<0, 1>>, y |-> <<0, 1>>, width |-> <<0, 1>>, height |-> <<0, 1>>]

\* centerCrop(makeAspectCrop({unit: '%', width: 90}, 1, width, height), width,
\* height): 90% of the width at aspect 1, shrunk to the height if it does not
\* fit, converted back to percent and centered.
InitialCrop(width, height) ==
  LET fits == 90 * width <= 100 * height
      w == IF fits THEN Frac(90, 1) ELSE Frac(100 * height, width)
      h == IF fits THEN Frac(90 * width, height) ELSE Frac(100, 1)
  IN [unit |-> "%",
      x |-> Frac(100 * w[2] - w[1], 2 * w[2]),
      y |-> Frac(100 * h[2] - h[1], 2 * h[2]),
      width |-> w, height |-> h]

\* The pixel selections ReactCrop reports through onChange: any rectangle
\* inside the displayed image, a click without a drag giving an empty one.
InsideDisplay(c, d) ==
  /\ c.x[1] + c.width[1] <= d.width
  /\ c.y[1] + c.height[1] <= d.height

PixelCrops(d) ==
  LET px(x, y, w, h) ==
        [unit |-> "px", x |-> <<x, 1>>, y |-> <<y, 1>>,
         width |-> <<w, 1>>, height |-> <<h, 1>>]
  IN {c \in {px(x, y, w, h) :
               x \in {0, 10}, y \in {0, 10},
               w \in {0, 33, d.width - 10, d.width},
               h \in {0, 20, d.height - 10, d.height}} : InsideDisplay(c, d)}

\* imageFile.mimeType of the picture in the cropper, split at "/"
MimeTypes == {<<"image", "png">>, <<"image", "jpeg">>, <<"image", "gif">>}

\* canvas.toDataURL(type): the type of the data URL; a type the canvas cannot
\* encode gives PNG, a canvas without area gives "data:," (no type).
toDataURL(type, width, height) ==
  IF width = 0 \/ height = 0 THEN <<>>
  ELSE IF type \in {<<"image", "png">>, <<"image", "jpeg">>, <<"image", "webp">>}
    THEN type
    ELSE <<"image", "png">>

\* The ImageFile made of "data:,": base64 is "" and there is no picture.
EmptyImage == -1

NoCanvas ==
  [drawn |-> FALSE, width |-> 0, height |-> 0,
   sx |-> <<0, 1>>, sy |-> <<0, 1>>, sw |-> <<0, 1>>, sh |-> <<0, 1>>,
   mimeType |-> <<>>, dataType |-> <<>>, sourceType |-> <<>>,
   crop |-> NoCrop, img |-> NoDisplay]

\* AgentTab after its mount effect: the chat session exists and the agent's
\* greeting is the only message.  stream: "none", "awaiting" (the promise
\* of sendMessageStream is pending) or "open" (chunks are arriving);
\* arrived: the chunks the open stream has delivered, in order.
Greeting == <<"H", "i">>
InitChat ==
  [messages |-> <<[role |-> "model", text |-> Greeting]>>,
   userInput |-> <<>>, isLoading |-> FALSE, error |-> NullStr,
   stream |-> "none", arrived |-> <<>>]

InitCropper == [crop |-> NoCrop, isProcessing |-> FALSE, img |-> NoDisplay]

NoEv == [op |-> "init", img |-> Null]
Ev(op, img) == [op |-> op, img |-> img]

\* An outstanding promise with the values its continuation closes over.
Call(kind, img, sel, hist, idx, name) ==
  [kind |-> kind, img |-> img, sel |-> sel, hist |-> hist, idx |-> idx,
   name |-> name, opts |-> <<>>, live |-> TRUE]

PanelKinds == {"ideas", "style", "custom", "blur"}
InFlight == BagCardinality(calls)
CanCall == InFlight < budget
Pending(kind) == {c \in BagToSet(calls) : c.kind = kind}

\* The continuations of an unmounted ResultDisplay still run, but their
\* setState calls on the panel have no effect.
Orphan(cs) ==
  LET dead(c) == IF c.kind \in PanelKinds THEN [c EXCEPT !.live = FALSE] ELSE c
      D == {dead(c) : c \in BagToSet(cs)}
  IN [d \in D |->
        (IF BagIn(d, cs) THEN CopiesIn(d, cs) ELSE 0)
        + (IF d.live = FALSE /\ BagIn([d EXCEPT !.live = TRUE], cs)
             THEN CopiesIn([d EXCEPT !.live = TRUE], cs) ELSE 0)]

\* Commit of one run (none takes effect once the tree is gone): a child that
\* stops being rendered loses its state, one that starts being rendered gets
\* its initial state.
CommitPanel(p, k, cs, cv, a, store, sel) ==
  /\ ~Crashed
  /\ budget' = budget
  /\ selectedSuggestions' = IF ~AnalysisPanelRendered' THEN <<>>
                            ELSE IF AnalysisPanelRendered THEN sel ELSE suggestions'
  /\ canvas' = cv
  /\ chat' = chat
  /\ storage' = store
  /\ settings' = IF ~AnalysisPanelRendered' THEN InitSettings
                 ELSE IF AnalysisPanelRendered THEN a ELSE Loaded(store)
  /\ panel' = IF ResultDisplayMounted /\ ResultDisplayMounted' THEN p ELSE InitPanel
  /\ cropper' = IF CropperMounted /\ CropperMounted' THEN k ELSE InitCropper
  /\ comparator' = IF ResultDisplayMounted /\ ResultDisplayMounted' THEN comparator
                   ELSE InitComparator
  /\ pointer' = IF ResultDisplayMounted /\ ResultDisplayMounted' THEN pointer
                ELSE NoPointer
  /\ calls' = IF ResultDisplayMounted /\ ~ResultDisplayMounted' THEN Orphan(cs) ELSE cs

\* A run that leaves the checkboxes alone.
CommitAll(p, k, cs, cv, a, store) ==
  CommitPanel(p, k, cs, cv, a, store, selectedSuggestions)

\* A run that leaves the analysis panel and the storage alone.
CommitCanvas(p, k, cs, cv) == CommitAll(p, k, cs, cv, settings, storage)

\* A run that draws nothing: the canvas of an earlier run is garbage.
Commit(p, k, cs) == CommitCanvas(p, k, cs, NoCanvas)


\* ---------------------------------------------------------------- session
Init ==
  /\ appState = IDLE
  /\ error = NullStr
  /\ originalImage = Null
  /\ imageToProcess = Null
  /\ originalFilename = <<>>
  /\ imageHistory = <<>>
  /\ currentImageIndex = -1
  /\ analysis = <<>>
  /\ suggestions = <<>>
  /\ enhancementSummary = <<>>
  /\ generationPrompt = <<>>
  /\ panel = InitPanel
  /\ cropper = InitCropper
  /\ comparator = InitComparator
  /\ pointer = NoPointer
  /\ canvas = NoCanvas
  /\ settings = InitSettings
  /\ selectedSuggestions = <<>>
  /\ storage = NoEntry
  /\ chat = InitChat
  /\ calls = EmptyBag
  /\ budget = MaxCalls
  /\ ev = NoEv

\* resetState: Cancel in Preview, Start Over in Done, Try Again in Error
resetState ==
  /\ appState' = IDLE
  /\ error' = NullStr
  /\ originalImage' = Null
  /\ imageToProcess' = Null
  /\ imageHistory' = <<>>
  /\ currentImageIndex' = -1
  /\ analysis' = <<>>
  /\ suggestions' = <<>>
  /\ enhancementSummary' = <<>>
  /\ originalFilename' = <<>>
  /\ generationPrompt' = <<>>

\* handleImageUpload up to the await: the media-type check
handleImageUpload(file) ==
  /\ UploaderRendered
  /\ IF ~StartsWithImage(file.type)
       THEN /\ error' = MsgInvalidFile
            /\ appState' = ERROR
            /\ UNCHANGED <<originalImage, imageToProcess, originalFilename,
                           imageHistory, currentImageIndex, analysis, suggestions,
                           enhancementSummary, generationPrompt>>
            /\ Commit(panel, cropper, calls)
            /\ ev' = Ev("uploadRejected", Null)
       ELSE /\ CanCall
            /\ error' = NullStr
            /\ UNCHANGED <<appState, originalImage, imageToProcess, originalFilename,
                           imageHistory, currentImageIndex, analysis, suggestions,
                           enhancementSummary, generationPrompt>>
            /\ Commit(panel, cropper,
                      calls (+) SetToBag({Call("load", file.data, <<>>, <<>>, -1, file.name)}))
            /\ ev' = Ev("upload", file.data)

\* fileToImageFile resolved: the rest of handleImageUpload's try block
loadResolved(c) ==
  /\ c.kind = "load"
  /\ originalFilename' = NameWithoutExtension(c.name)
  /\ originalImage' = c.img
  /\ imageToProcess' = c.img
  /\ appState' = PREVIEW
  /\ UNCHANGED <<error, imageHistory, currentImageIndex, analysis, suggestions,
                 enhancementSummary, generationPrompt>>
  /\ Commit(panel, cropper, calls (-) SetToBag({c}))
  /\ ev' = Ev("loadResolved", c.img)

\* fileToImageFile rejected (reader.onerror passes an event, not an Error)
loadRejected(c) ==
  /\ c.kind = "load"
  /\ error' = MsgLoadUnknown
  /\ appState' = ERROR
  /\ UNCHANGED <<originalImage, imageToProcess, originalFilename, imageHistory,
                 currentImageIndex, analysis, suggestions, enhancementSummary,
                 generationPrompt>>
  /\ Commit(panel, cropper, calls (-) SetToBag({c}))
  /\ ev' = Ev("loadRejected", Null)

\* the prompt textarea's onChange
setGenerationPrompt(text) ==
  /\ appState = IDLE
  /\ text # generationPrompt
  /\ generationPrompt' = text
  /\ UNCHANGED <<appState, error, originalImage, imageToProcess, originalFilename,
                 imageHistory, currentImageIndex, analysis, suggestions,
                 enhancementSummary>>
  /\ Commit(panel, cropper, calls)
  /\ ev' = Ev("setGenerationPrompt", Null)

\* handleGenerateImage up to the await (the button is disabled for a blank prompt)
handleGenerateImage ==
  /\ appState = IDLE
  /\ Trim(generationPrompt) # <<>>
  /\ CanCall
  /\ appState' = GENERATING
  /\ error' = NullStr
  /\ UNCHANGED <<originalImage, imageToProcess, originalFilename, imageHistory,
                 currentImageIndex, analysis, suggestions, enhancementSummary,
                 generationPrompt>>
  /\ Commit(panel, cropper,
            calls (+) SetToBag({Call("generate", Null, <<>>, <<>>, -1, generationPrompt)}))
  /\ ev' = Ev("generate", Null)

generateResolved(c, generatedImage) ==
  /\ c.kind = "generate"
  /\ originalFilename' = Slug(c.name)
  /\ originalImage' = generatedImage
  /\ imageToProcess' = generatedImage
  /\ appState' = PREVIEW
  /\ generationPrompt' = <<>>
  /\ UNCHANGED <<error, imageHistory, currentImageIndex, analysis, suggestions,
                 enhancementSummary>>
  /\ Commit(panel, cropper, calls (-) SetToBag({c}))
  /\ ev' = Ev("generateResolved", generatedImage)

generateRejected(c) ==
  /\ c.kind = "generate"
  /\ error' = MsgGenerate
  /\ appState' = ERROR
  /\ UNCHANGED <<originalImage, imageToProcess, originalFilename, imageHistory,
                 currentImageIndex, analysis, suggestions, enhancementSummary,
                 generationPrompt>>
  /\ Commit(panel, cropper, calls (-) SetToBag({c}))
  /\ ev' = Ev("generateRejected", Null)

\* handleStartAnalysis up to the await
handleStartAnalysis(image, op) ==
  /\ CanCall
  /\ imageToProcess' = image
  /\ appState' = ANALYZING
  /\ UNCHANGED <<error, originalImage, originalFilename, imageHistory,
                 currentImageIndex, analysis, suggestions, enhancementSummary,
                 generationPrompt>>
  /\ Commit(panel, cropper, calls (+) SetToBag({Call("analyze", image, <<>>, <<>>, -1, <<>>)}))
  /\ ev' = Ev(op, image)

\* Preview: Analyze Now
analyzeNow ==
  /\ PreviewRendered
  /\ handleStartAnalysis(imageToProcess, "analyze")

\* Preview: Crop Image
cropImage ==
  /\ PreviewRendered
  /\ appState' = CROPPING
  /\ UNCHANGED <<error, originalImage, imageToProcess, originalFilename, imageHistory,
                 currentImageIndex, analysis, suggestions, enhancementSummary,
                 generationPrompt>>
  /\ Commit(panel, cropper, calls)
  /\ ev' = Ev("cropImage", Null)

\* Preview: Cancel
cancelPreview ==
  /\ PreviewRendered
  /\ resetState
  /\ Commit(panel, cropper, calls)
  /\ ev' = Ev("cancelPreview", Null)

\* variant: the returned suggestions are not stored
analyzeResolvedDroppingSuggestions(c, sugg) ==
  /\ c.kind = "analyze"
  /\ analysis' = AnalysisOf(c.img)
  /\ appState' = AWAITING_CONFIRMATION
  /\ UNCHANGED <<error, originalImage, imageToProcess, originalFilename, imageHistory,
                 currentImageIndex, suggestions, enhancementSummary, generationPrompt>>
  /\ Commit(panel, cropper, calls (-) SetToBag({c}))
  /\ ev' = Ev("analyzeResolved", c.img)

analyzeResolved(c, sugg) ==
  /\ c.kind = "analyze"
  /\ analysis' = AnalysisOf(c.img)
  /\ suggestions' = sugg
  /\ appState' = AWAITING_CONFIRMATION
  /\ UNCHANGED <<error, originalImage, imageToProcess, originalFilename, imageHistory,
                 currentImageIndex, enhancementSummary, generationPrompt>>
  /\ Commit(panel, cropper, calls (-) SetToBag({c}))
  /\ ev' = Ev("analyzeResolved", c.img)

\* variant: a failed analysis is started again
analyzeRejectedRetrying(c) ==
  /\ c.kind = "analyze"
  /\ error' = MsgAnalyze
  /\ appState' = ANALYZING
  /\ UNCHANGED <<originalImage, imageToProcess, originalFilename, imageHistory,
                 currentImageIndex, analysis, suggestions, enhancementSummary,
                 generationPrompt>>
  /\ Commit(panel, cropper, calls)
  /\ ev' = Ev("analyzeRejected", Null)

analyzeRejected(c) ==
  /\ c.kind = "analyze"
  /\ error' = MsgAnalyze
  /\ appState' = ERROR
  /\ UNCHANGED <<originalImage, imageToProcess, originalFilename, imageHistory,
                 currentImageIndex, analysis, suggestions, enhancementSummary,
                 generationPrompt>>
  /\ Commit(panel, cropper, calls (-) SetToBag({c}))
  /\ ev' = Ev("analyzeRejected", Null)


\* ---------------------------------------------------------------- cropper
\* ImageCropper.onImageLoad: the <img> finished loading with the layout d;
\* the initial selection is set, in percent units.
onImageLoad(d) ==
  /\ CropperMounted
  /\ cropper.img = NoDisplay
  /\ UNCHANGED session
  /\ Commit(panel, [cropper EXCEPT !.img = d, !.crop = InitialCrop(d.width, d.height)],
            calls)
  /\ ev' = Ev("onImageLoad", Null)

\* ReactCrop onChange={c => setCrop(c)}: c is the selection in pixel units
onChange(c) ==
  /\ CropperMounted
  /\ cropper.img # NoDisplay
  /\ c.unit = "px" /\ InsideDisplay(c, cropper.img)
  /\ UNCHANGED session
  /\ Commit(panel, [cropper EXCEPT !.crop = c], calls)
  /\ ev' = Ev("cropChange", Null)

\* The canvas of handleConfirmCrop: the selection's numbers are multiplied by
\* the scale whatever their unit, the canvas size is their integer part.
Extract(crop, img, mimeType) ==
  LET scaleX == Frac(img.naturalWidth, img.width)
      scaleY == Frac(img.naturalHeight, img.height)
      cropX == Times(crop.x, scaleX)
      cropY == Times(crop.y, scaleY)
      cropWidth == Times(crop.width, scaleX)
      cropHeight == Times(crop.height, scaleY)
  IN [drawn |-> TRUE, width |-> Floor(cropWidth), height |-> Floor(cropHeight),
      sx |-> cropX, sy |-> cropY, sw |-> cropWidth, sh |-> cropHeight,
      mimeType |-> mimeType,
      dataType |-> toDataURL(mimeType, Floor(cropWidth), Floor(cropHeight)),
      sourceType |-> mimeType, crop |-> crop, img |-> img]

\* ImageCropper.handleConfirmCrop (button disabled without a selection or
\* while processing).  Without a 2D context it clears isProcessing and
\* returns; an exception of drawImage or toDataURL leaves the async function
\* with isProcessing set; otherwise it rasterizes and calls onCropComplete,
\* which is handleCropComplete -> handleStartAnalysis.
handleConfirmCrop(outcome, croppedImage, mimeType) ==
  /\ CropperMounted
  /\ cropper.crop # NoCrop /\ cropper.img # NoDisplay /\ ~cropper.isProcessing
  /\ CASE outcome = "ok" ->
            LET cv == Extract(cropper.crop, cropper.img, mimeType)
            IN /\ CanCall
               /\ croppedImage = EmptyImage <=> cv.dataType = <<>>
               /\ imageToProcess' = croppedImage
               /\ appState' = ANALYZING
               /\ UNCHANGED <<error, originalImage, originalFilename, imageHistory,
                              currentImageIndex, analysis, suggestions,
                              enhancementSummary, generationPrompt>>
               /\ CommitCanvas(panel, [cropper EXCEPT !.isProcessing = TRUE],
                    calls (+) SetToBag({Call("analyze", croppedImage, <<>>, <<>>, -1, <<>>)}),
                    cv)
               /\ ev' = Ev("cropConfirm", croppedImage)
       [] outcome = "noContext" ->
            /\ croppedImage = Null
            /\ UNCHANGED session
            /\ Commit(panel, [cropper EXCEPT !.isProcessing = FALSE], calls)
            /\ ev' = Ev("cropNoContext", Null)
       [] outcome = "throws" ->
            /\ croppedImage = Null
            /\ UNCHANGED session
            /\ Commit(panel, [cropper EXCEPT !.isProcessing = TRUE], calls)
            /\ ev' = Ev("cropThrows", Null)

\* variant: Cancel in the cropper resets the session as Cancel in Preview does
cancelCropResetting ==
  /\ CropperMounted
  /\ resetState
  /\ Commit(panel, cropper, calls)
  /\ ev' = Ev("cancelCrop", Null)

\* ImageCropper onCancel
cancelCrop ==
  /\ CropperMounted
  /\ appState' = PREVIEW
  /\ UNCHANGED <<error, originalImage, imageToProcess, originalFilename, imageHistory,
                 currentImageIndex, analysis, suggestions, enhancementSummary,
                 generationPrompt>>
  /\ Commit(panel, cropper, calls)
  /\ ev' = Ev("cancelCrop", Null)

\* ---------------------------------------------------------------- enhance
\* AnalysisPanel's controls
setStrength(level) ==
  /\ AnalysisPanelRendered
  /\ UNCHANGED session
  /\ CommitAll(panel, cropper, calls, NoCanvas, [settings EXCEPT !.strength = level], storage)
  /\ ev' = Ev("setStrength", Null)

setDetailLevel(value) ==
  /\ AnalysisPanelRendered
  /\ UNCHANGED session
  /\ CommitAll(panel, cropper, calls, NoCanvas, [settings EXCEPT !.detailLevel = value],
               storage)
  /\ ev' = Ev("setDetailLevel", Null)

setSaveSettings(checked) ==
  /\ AnalysisPanelRendered
  /\ UNCHANGED session
  /\ CommitAll(panel, cropper, calls, NoCanvas, [settings EXCEPT !.saveSettings = checked],
               storage)
  /\ ev' = Ev("setSaveSettings", Null)

\* variant: an unchecked box leaves the stored entry in place
AfterEnhanceClickKeeping(stored) ==
  IF settings.saveSettings /\ stored
    THEN Stringify([strength |-> settings.strength, detailLevel |-> settings.detailLevel])
    ELSE storage

\* variant: a second click on a checkbox adds the suggestion once more
handleCheckboxChangeAppending(suggestion) ==
  /\ AnalysisPanelRendered
  /\ suggestion \in Range(suggestions)
  /\ UNCHANGED session
  /\ CommitPanel(panel, cropper, calls, NoCanvas, settings, storage,
                 Append(selectedSuggestions, suggestion))
  /\ ev' = Ev("checkbox", Null)

\* a click on the checkbox of one of the listed suggestions
handleCheckboxChange(suggestion) ==
  /\ AnalysisPanelRendered
  /\ suggestion \in Range(suggestions)
  /\ UNCHANGED session
  /\ CommitPanel(panel, cropper, calls, NoCanvas, settings, storage,
                 IF suggestion \in Range(selectedSuggestions)
                   THEN SelectSeq(selectedSuggestions, LAMBDA s : s # suggestion)
                   ELSE Append(selectedSuggestions, suggestion))
  /\ ev' = Ev("checkbox", Null)

\* handleEnhanceClick: the entry after the click.  stored: setItem did not
\* throw (its exception is caught and logged).
AfterEnhanceClick(stored) ==
  IF settings.saveSettings
    THEN IF stored
           THEN Stringify([strength |-> settings.strength,
                           detailLevel |-> settings.detailLevel])
           ELSE storage
    ELSE NoEntry

\* AnalysisPanel's Enhance Photo button: handleEnhanceClick, then
\* handleEnhance up to the await
handleEnhance(selected, stored) ==
  /\ AnalysisPanelRendered
  /\ imageToProcess # Null
  /\ CanCall
  /\ stored \/ settings.saveSettings
  /\ appState' = ENHANCING
  /\ error' = NullStr
  /\ UNCHANGED <<originalImage, imageToProcess, originalFilename, imageHistory,
                 currentImageIndex, analysis, suggestions, enhancementSummary,
                 generationPrompt>>
  /\ CommitAll(panel, cropper,
               calls (+) SetToBag({[Call("enhance", imageToProcess, selected,
                                         <<>>, -1, <<>>)
                                      EXCEPT !.opts = <<settings.strength,
                                                        settings.detailLevel>>]}),
               NoCanvas, settings, AfterEnhanceClick(stored))
  /\ ev' = Ev("enhance", imageToProcess)

\* The Enhance Photo button, disabled while nothing is checked
handleEnhanceClick(stored) ==
  /\ selectedSuggestions # <<>>
  /\ handleEnhance(selectedSuggestions, stored)

\* enhanceImage resolved: history is seeded from the captured imageToProcess
enhanceResolved(c, enhancedImageResult) ==
  /\ c.kind = "enhance"
  /\ imageHistory' = <<c.img, enhancedImageResult>>
  /\ currentImageIndex' = 1
  /\ enhancementSummary' = SummaryText(c.sel)
  /\ appState' = DONE
  /\ UNCHANGED <<error, originalImage, imageToProcess, originalFilename, analysis,
                 suggestions, generationPrompt>>
  /\ Commit(panel, cropper, calls (-) SetToBag({c}))
  /\ ev' = Ev("enhanceResolved", enhancedImageResult)

enhanceRejected(c, msg) ==
  /\ c.kind = "enhance"
  /\ error' = msg
  /\ appState' = ERROR
  /\ UNCHANGED <<originalImage, imageToProcess, originalFilename, imageHistory,
                 currentImageIndex, analysis, suggestions, enhancementSummary,
                 generationPrompt>>
  /\ Commit(panel, cropper, calls (-) SetToBag({c}))
  /\ ev' = Ev("enhanceRejected", Null)

\* ---------------------------------------------------------------- done
\* Refine Suggestions
\* variant: refine also discards the stored suggestions
handleRefineDroppingSuggestions ==
  /\ ResultDisplayMounted
  /\ enhancementSummary' = <<>>
  /\ suggestions' = <<>>
  /\ appState' = AWAITING_CONFIRMATION
  /\ UNCHANGED <<error, originalImage, imageToProcess, originalFilename, imageHistory,
                 currentImageIndex, analysis, generationPrompt>>
  /\ Commit(panel, cropper, calls)
  /\ ev' = Ev("refine", Null)

\* variant: refine also clears the history
handleRefineClearing ==
  /\ ResultDisplayMounted
  /\ enhancementSummary' = <<>>
  /\ appState' = AWAITING_CONFIRMATION
  /\ imageHistory' = <<>>
  /\ currentImageIndex' = -1
  /\ UNCHANGED <<error, originalImage, imageToProcess, originalFilename,
                 analysis, suggestions, generationPrompt>>
  /\ Commit(panel, cropper, calls)
  /\ ev' = Ev("refine", Null)

handleRefine ==
  /\ ResultDisplayMounted
  /\ enhancementSummary' = <<>>
  /\ appState' = AWAITING_CONFIRMATION
  /\ UNCHANGED <<error, originalImage, imageToProcess, originalFilename, imageHistory,
                 currentImageIndex, analysis, suggestions, generationPrompt>>
  /\ Commit(panel, cropper, calls)
  /\ ev' = Ev("refine", Null)

\* Start Over
startOver ==
  /\ ResultDisplayMounted
  /\ resetState
  /\ Commit(panel, cropper, calls)
  /\ ev' = Ev("startOver", Null)

\* Try Again in Error
tryAgain ==
  /\ ErrorRendered
  /\ resetState
  /\ Commit(panel, cropper, calls)
  /\ ev' = Ev("tryAgain", Null)

\* variant: undo without the cursor guard
handleUndoUnguarded ==
  /\ ResultDisplayMounted
  /\ currentImageIndex' = currentImageIndex - 1
  /\ UNCHANGED <<appState, error, originalImage, imageToProcess, originalFilename,
                 imageHistory, analysis, suggestions, enhancementSummary,
                 generationPrompt>>
  /\ Commit(panel, cropper, calls)
  /\ ev' = Ev("undo", Null)

\* handleUndo, as the Undo button's onClick; the button is disabled unless
\* canUndo, so with the cursor at 0 this is the handler's own guard
handleUndo ==
  /\ ResultDisplayMounted
  /\ currentImageIndex' = IF currentImageIndex > 0 THEN currentImageIndex - 1
                          ELSE currentImageIndex
  /\ UNCHANGED <<appState, error, originalImage, imageToProcess, originalFilename,
                 imageHistory, analysis, suggestions, enhancementSummary,
                 generationPrompt>>
  /\ Commit(panel, cropper, calls)
  /\ ev' = Ev("undo", Null)

\* variant: the cursor is set to the new length
handleImageUpdateOffByOne(hist, idx, newImage) ==
  LET newHistory == Append(Slice(hist, idx + 1), newImage)
  IN /\ imageHistory' = newHistory
     /\ currentImageIndex' = Len(newHistory)

\* handleImageUpdate of the render in which the edit was started: it reads the
\* imageHistory and currentImageIndex that render saw
handleImageUpdate(hist, idx, newImage) ==
  LET newHistory == Append(Slice(hist, idx + 1), newImage)
  IN /\ imageHistory' = newHistory
     /\ currentImageIndex' = Len(newHistory) - 1


\* ---------------------------------------------------------------- result panel
\* The text of the custom prompt, the blur slider and the active tab are
\* taken as inputs of the click that uses them.
IdeaLists == {<<>>, <<"idea">>}
BlurLevels == {0, 40}
\* the blur slider's max
MaxBlur == 100

\* variant: the first band ends below 10
getBlurLevelPromptStrict(level) ==
  IF level < 10 THEN "very subtle, barely noticeable"
  ELSE IF level <= 30 THEN "subtle and natural"
  ELSE IF level <= 60 THEN "moderate, similar to a portrait lens"
  ELSE IF level <= 85
    THEN "strong and prominent, making the subject stand out significantly"
  ELSE "maximum, creating a very dreamy and artistic effect"

getBlurLevelPrompt(level) ==
  IF level <= 10 THEN "very subtle, barely noticeable"
  ELSE IF level <= 30 THEN "subtle and natural"
  ELSE IF level <= 60 THEN "moderate, similar to a portrait lens"
  ELSE IF level <= 85
    THEN "strong and prominent, making the subject stand out significantly"
  ELSE "maximum, creating a very dreamy and artistic effect"

\* applyBackgroundBlur: level 0 returns the image it was given, any other
\* level the image the service generated
applyBackgroundBlur(image, blurLevel, generated) ==
  IF blurLevel = 0 THEN image ELSE generated

CreativeBusy == panel.creativeState = "applying" \/ panel.isApplyingCustomPrompt

\* which controls of the panel can be used (the creative tab shows a spinner
\* in place of all its controls while CreativeBusy)
SuggestIdeasAvailable ==
  ResultDisplayMounted /\ ~CreativeBusy /\ panel.creativeState = "idle"
StyleAvailable == ResultDisplayMounted /\ ~CreativeBusy
CustomPromptAvailable == ResultDisplayMounted /\ ~CreativeBusy
BlurAvailable == ResultDisplayMounted /\ ~panel.isApplyingBlur

\* an edit started now appends at most at position MaxHistory
CanEdit == CanCall /\ currentImageIndex + 2 <= MaxHistory

\* getCreativeIdeas' continuation reads nothing of the session; an edit's
\* continuation calls the onImageUpdate of the render that started it
PanelCall(kind) ==
  IF kind = "ideas" THEN Call(kind, enhancedImage, <<>>, <<>>, -1, <<>>)
  ELSE Call(kind, enhancedImage, <<>>, imageHistory, currentImageIndex, <<>>)

\* a panel continuation's setState calls reach the panel only if the
\* ResultDisplay that started the call is still mounted
PanelAfter(c, p) == IF c.live THEN p ELSE panel

handleSuggestIdeas ==
  /\ ResultDisplayMounted
  /\ ~CreativeBusy /\ panel.creativeState = "idle"
  /\ CanCall
  /\ UNCHANGED session
  /\ Commit([panel EXCEPT !.creativeState = "loading", !.creativeError = NullStr],
            cropper, calls (+) SetToBag({PanelCall("ideas")}))
  /\ ev' = Ev("ideas", enhancedImage)

ideasResolved(c, ideas) ==
  /\ c.kind = "ideas"
  /\ UNCHANGED session
  /\ Commit(PanelAfter(c, [panel EXCEPT !.creativeIdeas = ideas, !.creativeState = "showing"]),
            cropper, calls (-) SetToBag({c}))
  /\ ev' = Ev("ideasResolved", Null)

ideasRejected(c) ==
  /\ c.kind = "ideas"
  /\ UNCHANGED session
  /\ Commit(PanelAfter(c, [panel EXCEPT !.creativeError = MsgIdeas, !.creativeState = "error"]),
            cropper, calls (-) SetToBag({c}))
  /\ ev' = Ev("ideasRejected", Null)

\* handleApplyStyle up to the await
handleApplyStyle ==
  /\ CanEdit
  /\ UNCHANGED session
  /\ Commit([panel EXCEPT !.creativeState = "applying", !.creativeError = NullStr],
            cropper, calls (+) SetToBag({PanelCall("style")}))
  /\ ev' = Ev("style", enhancedImage)

\* a preset button (Professional Filters, Artistic Styles)
applyPreset ==
  /\ ResultDisplayMounted
  /\ ~CreativeBusy
  /\ handleApplyStyle

\* one of the suggested ideas
applyIdea ==
  /\ ResultDisplayMounted
  /\ ~CreativeBusy /\ panel.creativeState = "showing" /\ panel.creativeIdeas # <<>>
  /\ handleApplyStyle

styleResolved(c, newImage) ==
  /\ c.kind = "style"
  /\ handleImageUpdate(c.hist, c.idx, newImage)
  /\ UNCHANGED <<appState, error, originalImage, imageToProcess, originalFilename,
                 analysis, suggestions, enhancementSummary, generationPrompt>>
  /\ Commit(PanelAfter(c, [panel EXCEPT !.creativeState = "idle", !.creativeIdeas = <<>>]),
            cropper, calls (-) SetToBag({c}))
  /\ ev' = Ev("styleResolved", newImage)

\* variant: the failure is reported through the session's Error state
styleRejectedToSessionError(c) ==
  /\ c.kind = "style"
  /\ error' = MsgStyle
  /\ appState' = ERROR
  /\ UNCHANGED <<originalImage, imageToProcess, originalFilename, imageHistory,
                 currentImageIndex, analysis, suggestions, enhancementSummary,
                 generationPrompt>>
  /\ Commit(PanelAfter(c, [panel EXCEPT !.creativeState = "error"]),
            cropper, calls (-) SetToBag({c}))
  /\ ev' = Ev("styleRejected", Null)

styleRejected(c) ==
  /\ c.kind = "style"
  /\ UNCHANGED session
  /\ Commit(PanelAfter(c, [panel EXCEPT !.creativeError = MsgStyle, !.creativeState = "error"]),
            cropper, calls (-) SetToBag({c}))
  /\ ev' = Ev("styleRejected", Null)

handleApplyCustomPrompt(customPrompt) ==
  /\ ResultDisplayMounted
  /\ ~CreativeBusy
  /\ Trim(customPrompt) # <<>> /\ enhancedImage # Null
  /\ CanEdit
  /\ UNCHANGED session
  /\ Commit([panel EXCEPT !.isApplyingCustomPrompt = TRUE, !.creativeError = NullStr],
            cropper, calls (+) SetToBag({PanelCall("custom")}))
  /\ ev' = Ev("custom", enhancedImage)

customResolved(c, newImage) ==
  /\ c.kind = "custom"
  /\ handleImageUpdate(c.hist, c.idx, newImage)
  /\ UNCHANGED <<appState, error, originalImage, imageToProcess, originalFilename,
                 analysis, suggestions, enhancementSummary, generationPrompt>>
  /\ Commit(PanelAfter(c, [panel EXCEPT !.isApplyingCustomPrompt = FALSE]),
            cropper, calls (-) SetToBag({c}))
  /\ ev' = Ev("customResolved", newImage)

customRejected(c) ==
  /\ c.kind = "custom"
  /\ UNCHANGED session
  /\ Commit(PanelAfter(c, [panel EXCEPT !.creativeError = MsgStyle,
                                        !.isApplyingCustomPrompt = FALSE]),
            cropper, calls (-) SetToBag({c}))
  /\ ev' = Ev("customRejected", Null)

handleApplyBackgroundBlur(backgroundBlurLevel) ==
  /\ ResultDisplayMounted
  /\ ~panel.isApplyingBlur
  /\ backgroundBlurLevel # 0
  /\ CanEdit
  /\ UNCHANGED session
  /\ Commit([panel EXCEPT !.isApplyingBlur = TRUE, !.creativeError = NullStr],
            cropper,
            calls (+) SetToBag({[PanelCall("blur") EXCEPT
                                   !.opts = <<backgroundBlurLevel,
                                              getBlurLevelPrompt(backgroundBlurLevel)>>]}))
  /\ ev' = Ev("blur", enhancedImage)

\* variant: the blurred image also becomes the image to process
blurResolvedReplacingSource(c, newImage) ==
  /\ c.kind = "blur"
  /\ handleImageUpdate(c.hist, c.idx, newImage)
  /\ imageToProcess' = newImage
  /\ UNCHANGED <<appState, error, originalImage, originalFilename,
                 analysis, suggestions, enhancementSummary, generationPrompt>>
  /\ Commit(PanelAfter(c, [panel EXCEPT !.isApplyingBlur = FALSE]),
            cropper, calls (-) SetToBag({c}))
  /\ ev' = Ev("blurResolved", newImage)

blurResolved(c, newImage) ==
  /\ c.kind = "blur"
  /\ handleImageUpdate(c.hist, c.idx, applyBackgroundBlur(c.img, c.opts[1], newImage))
  /\ UNCHANGED <<appState, error, originalImage, imageToProcess, originalFilename,
                 analysis, suggestions, enhancementSummary, generationPrompt>>
  /\ Commit(PanelAfter(c, [panel EXCEPT !.isApplyingBlur = FALSE]),
            cropper, calls (-) SetToBag({c}))
  /\ ev' = Ev("blurResolved", newImage)

blurRejected(c) ==
  /\ c.kind = "blur"
  /\ UNCHANGED session
  /\ Commit(PanelAfter(c, [panel EXCEPT !.creativeError = MsgBlur, !.isApplyingBlur = FALSE]),
            cropper, calls (-) SetToBag({c}))
  /\ ev' = Ev("blurRejected", Null)

\* ---------------------------------------------------------------- comparator
\* One event of the ImageComparator inside the ResultDisplay on screen.
ComparatorEvent(op, c, p) ==
  /\ ResultDisplayMounted
  /\ comparator' = c
  /\ pointer' = p
  /\ UNCHANGED <<session, panel, cropper, canvas, settings, selectedSuggestions,
                 storage, chat, calls, budget>>
  /\ ev' = Ev(op, Null)

InsideRect(clientX, clientY, rect) ==
  /\ clientX \in rect.left..(rect.left + rect.width)
  /\ clientY \in rect.top..(rect.top + rect.height)

\* variant: the offset is not clamped at the left edge
handleSliderMoveNoFloor(clientX, rect) ==
  Percent(Min(clientX - rect.left, rect.width), rect.width)

\* handleSliderMove: the new sliderPosition
handleSliderMove(clientX, rect) ==
  LET x == Max(0, Min(clientX - rect.left, rect.width))
  IN Percent(x, rect.width)

\* onMouseMove of the container: fires with the mouse over it
handleMouseMove(clientX, clientY, rect) ==
  /\ pointer.over
  /\ InsideRect(clientX, clientY, rect)
  /\ ComparatorEvent("mouseMove",
       IF comparator.isDragging
         THEN [comparator EXCEPT !.sliderPosition = handleSliderMove(clientX, rect)]
         ELSE [comparator EXCEPT !.transformOrigin =
                 <<Percent(clientX - rect.left, rect.width),
                   Percent(clientY - rect.top, rect.height)>>],
       [clientX |-> clientX, clientY |-> clientY, rect |-> rect, over |-> TRUE])

onMouseEnter ==
  /\ ~pointer.over
  /\ ComparatorEvent("mouseEnter",
       IF ~comparator.isDragging THEN [comparator EXCEPT !.isZoomed = TRUE]
       ELSE comparator,
       [pointer EXCEPT !.over = TRUE])

\* variant: leaving the container also ends the drag
onMouseLeaveEndingDrag ==
  /\ pointer.over
  /\ ComparatorEvent("mouseLeave",
       [comparator EXCEPT !.isZoomed = FALSE, !.isDragging = FALSE],
       [pointer EXCEPT !.over = FALSE])

onMouseLeave ==
  /\ pointer.over
  /\ ComparatorEvent("mouseLeave", [comparator EXCEPT !.isZoomed = FALSE],
                     [pointer EXCEPT !.over = FALSE])

\* onMouseDown of the handle, which lies inside the container
handleMouseDown ==
  /\ pointer.over
  /\ ComparatorEvent("mouseDown",
       [comparator EXCEPT !.isDragging = TRUE, !.isZoomed = FALSE], pointer)

\* onTouchStart of the handle
handleTouchStart ==
  /\ ResultDisplayMounted
  /\ ComparatorEvent("touchStart", [comparator EXCEPT !.isDragging = TRUE], pointer)

\* the window listeners of the effect
handleMouseUp ==
  /\ ResultDisplayMounted
  /\ ComparatorEvent("mouseUp",
       IF comparator.isDragging THEN [comparator EXCEPT !.isDragging = FALSE]
       ELSE comparator, pointer)

handleTouchMove(clientX, rect) ==
  /\ ResultDisplayMounted
  /\ ComparatorEvent("touchMove",
       IF comparator.isDragging
         THEN [comparator EXCEPT !.sliderPosition = handleSliderMove(clientX, rect)]
         ELSE comparator,
       [pointer EXCEPT !.clientX = clientX, !.rect = rect])

handleTouchEnd ==
  /\ ResultDisplayMounted
  /\ ComparatorEvent("touchEnd",
       IF comparator.isDragging THEN [comparator EXCEPT !.isDragging = FALSE]
       ELSE comparator, pointer)

\* ---------------------------------------------------------------- next
\* The layout of the picture in the sessions followed from construction.
SessionDisplays ==
  {[width |-> 200, height |-> 200, naturalWidth |-> 400, naturalHeight |-> 400]}

\* Handlers of the session: the uploader, the prompt box, the Preview
\* buttons, the cropper, the analysis panel and the buttons under the result.
SessionEvent ==
  \/ \E file \in Files : handleImageUpload(file)
  \/ \E text \in Prompts : setGenerationPrompt(text)
  \/ handleGenerateImage
  \/ analyzeNow
  \/ cropImage
  \/ cancelPreview
  \/ \E d \in SessionDisplays : onImageLoad(d)
  \/ \E croppedImage \in Images, mimeType \in MimeTypes :
       handleConfirmCrop("ok", croppedImage, mimeType)
  \/ \E mimeType \in MimeTypes : handleConfirmCrop("noContext", Null, mimeType)
  \/ \E mimeType \in MimeTypes : handleConfirmCrop("throws", Null, mimeType)
  \/ cancelCrop
  \/ \E suggestion \in SuggestionTexts : handleCheckboxChange(suggestion)
  \/ handleEnhanceClick(TRUE)
  \/ handleRefine
  \/ startOver
  \/ tryAgain
  \/ handleUndo

\* Continuations of the session's own promises.
SessionSettled ==
  \/ \E c \in BagToSet(calls) : loadResolved(c)
  \/ \E c \in BagToSet(calls) : loadRejected(c)
  \/ \E c \in BagToSet(calls), img \in Images : generateResolved(c, img)
  \/ \E c \in BagToSet(calls) : generateRejected(c)
  \/ \E c \in BagToSet(calls), sugg \in SuggestionLists : analyzeResolved(c, sugg)
  \/ \E c \in BagToSet(calls) : analyzeRejected(c)
  \/ \E c \in BagToSet(calls), img \in Images : enhanceResolved(c, img)
  \/ \E c \in BagToSet(calls), msg \in {MsgEnhance, MsgEnhanceSafety} : enhanceRejected(c, msg)

\* The session from construction: every session handler and every
\* interleaving of the completions of its calls.
Next == SessionEvent \/ SessionSettled

Spec == Init /\ [][Next]_vars

\* ---------------------------------------------------------------- result phase
\* A session that reached Done by its first successful enhance: the first
\* photo was uploaded, analyzed (one suggestion) and enhanced, and the
\* service returned any image.
DoneFile == [type |-> <<"image", "png">>, name |-> <<"photo", "png">>, data |-> 1]

InitDone ==
  \E result \in Images :
    /\ appState = DONE
    /\ error = NullStr
    /\ originalImage = DoneFile.data
    /\ imageToProcess = DoneFile.data
    /\ originalFilename = NameWithoutExtension(DoneFile.name)
    /\ imageHistory = <<DoneFile.data, result>>
    /\ currentImageIndex = 1
    /\ analysis = AnalysisOf(DoneFile.data)
    /\ suggestions = <<"s1">>
    /\ enhancementSummary = SummaryText(<<"s1">>)
    /\ generationPrompt = <<>>
    /\ panel = InitPanel
    /\ cropper = InitCropper
    /\ comparator = InitComparator
    /\ pointer = NoPointer
    /\ canvas = NoCanvas
    /\ settings = InitSettings
    /\ selectedSuggestions = <<>>
    /\ storage = NoEntry
    /\ chat = InitChat
    /\ calls = EmptyBag
    /\ budget = MaxCalls
    /\ ev = Ev("enhanceResolved", result)

\* Handlers reachable from Done without a new upload.
DoneEvent ==
  \/ handleUndo
  \/ handleRefine
  \/ \E suggestion \in SuggestionTexts : handleCheckboxChange(suggestion)
  \/ handleEnhanceClick(TRUE)
  \/ startOver
  \/ tryAgain

PanelEvent ==
  \/ handleSuggestIdeas
  \/ applyPreset
  \/ applyIdea
  \/ \E customPrompt \in Prompts : handleApplyCustomPrompt(customPrompt)
  \/ \E level \in BlurLevels : handleApplyBackgroundBlur(level)

DoneSettled ==
  \/ \E c \in BagToSet(calls), img \in Images : enhanceResolved(c, img)
  \/ \E c \in BagToSet(calls), msg \in {MsgEnhance, MsgEnhanceSafety} : enhanceRejected(c, msg)
  \/ \E c \in BagToSet(calls), ideas \in IdeaLists : ideasResolved(c, ideas)
  \/ \E c \in BagToSet(calls) : ideasRejected(c)
  \/ \E c \in BagToSet(calls), img \in Images : styleResolved(c, img)
  \/ \E c \in BagToSet(calls) : styleRejected(c)
  \/ \E c \in BagToSet(calls), img \in Images : customResolved(c, img)
  \/ \E c \in BagToSet(calls) : customRejected(c)
  \/ \E c \in BagToSet(calls), img \in Images : blurResolved(c, img)
  \/ \E c \in BagToSet(calls) : blurRejected(c)

NextPanel == DoneEvent \/ PanelEvent \/ DoneSettled

\* The result phase: the panel's handlers, undo, refine, a further enhance,
\* start over, and every interleaving of the completions of their calls.
SpecPanel == InitDone /\ [][NextPanel]_vars

NextComparator ==
  \/ \E clientX \in Coords, clientY \in Coords, rect \in Rects :
       handleMouseMove(clientX, clientY, rect)
  \/ onMouseEnter
  \/ onMouseLeave
  \/ handleMouseDown
  \/ handleTouchStart
  \/ handleMouseUp
  \/ \E clientX \in Coords, rect \in Rects : handleTouchMove(clientX, rect)
  \/ handleTouchEnd

\* The comparator under a result on screen: every sequence of mouse and
\* touch events on it.
SpecComparator == InitDone /\ [][NextComparator]_vars


\* ---------------------------------------------------------------- blur
NextBlur ==
  \/ \E level \in 0..MaxBlur : handleApplyBackgroundBlur(level)
  \/ \E c \in BagToSet(calls), img \in Images : blurResolved(c, img)
  \/ \E c \in BagToSet(calls) : blurRejected(c)

\* The blur control under a result on screen, at every position of its
\* slider.
SpecBlur == InitDone /\ [][NextBlur]_vars

\* ---------------------------------------------------------------- crop phase
\* A session in Cropping: the first photo was uploaded and Crop Image was
\* clicked in Preview.
InitCropping ==
  /\ appState = CROPPING
  /\ error = NullStr
  /\ originalImage = DoneFile.data
  /\ imageToProcess = DoneFile.data
  /\ originalFilename = NameWithoutExtension(DoneFile.name)
  /\ imageHistory = <<>>
  /\ currentImageIndex = -1
  /\ analysis = <<>>
  /\ suggestions = <<>>
  /\ enhancementSummary = <<>>
  /\ generationPrompt = <<>>
  /\ panel = InitPanel
  /\ cropper = InitCropper
  /\ comparator = InitComparator
  /\ pointer = NoPointer
  /\ canvas = NoCanvas
  /\ settings = InitSettings
  /\ selectedSuggestions = <<>>
  /\ storage = NoEntry
  /\ chat = InitChat
  /\ calls = EmptyBag
  /\ budget = MaxCalls
  /\ ev = Ev("cropImage", Null)

NextCropper ==
  \/ \E d \in Displays : onImageLoad(d)
  \/ \E d \in Displays : \E c \in PixelCrops(d) : onChange(c)
  \/ \E croppedImage \in Images \cup {EmptyImage}, mimeType \in MimeTypes :
       handleConfirmCrop("ok", croppedImage, mimeType)
  \/ \E mimeType \in MimeTypes : handleConfirmCrop("noContext", Null, mimeType)
  \/ \E mimeType \in MimeTypes : handleConfirmCrop("throws", Null, mimeType)
  \/ cancelCrop
  \/ cropImage

\* The cropper on screen: every picture layout, every selection the user
\* can make, confirm with each of its outcomes, cancel and crop again.
SpecCropper == InitCropping /\ [][NextCropper]_vars

\* ---------------------------------------------------------------- settings phase
\* The entries handleEnhanceClick can have written in an earlier visit.
StoredEntries ==
  {Stringify([strength |-> s, detailLevel |-> d]) : s \in Strengths, d \in DetailLevels}

\* A session whose analysis panel has just opened for the first photo, with
\* or without an entry in the storage.
InitAwaiting ==
  /\ appState = AWAITING_CONFIRMATION
  /\ error = NullStr
  /\ originalImage = DoneFile.data
  /\ imageToProcess = DoneFile.data
  /\ originalFilename = NameWithoutExtension(DoneFile.name)
  /\ imageHistory = <<>>
  /\ currentImageIndex = -1
  /\ analysis = AnalysisOf(DoneFile.data)
  /\ suggestions = <<"s1">>
  /\ enhancementSummary = <<>>
  /\ generationPrompt = <<>>
  /\ panel = InitPanel
  /\ cropper = InitCropper
  /\ comparator = InitComparator
  /\ pointer = NoPointer
  /\ canvas = NoCanvas
  /\ storage \in StoredEntries \cup {NoEntry}
  /\ settings = Loaded(storage)
  /\ selectedSuggestions = suggestions
  /\ chat = InitChat
  /\ calls = EmptyBag
  /\ budget = MaxCalls
  /\ ev = Ev("analyzeResolved", DoneFile.data)

NextSettings ==
  \/ \E level \in Strengths : setStrength(level)
  \/ \E value \in DetailLevels : setDetailLevel(value)
  \/ \E checked \in BOOLEAN : setSaveSettings(checked)
  \/ \E suggestion \in SuggestionTexts : handleCheckboxChange(suggestion)
  \/ \E stored \in BOOLEAN : handleEnhanceClick(stored)
  \/ \E c \in BagToSet(calls), img \in Images : enhanceResolved(c, img)
  \/ \E c \in BagToSet(calls), msg \in {MsgEnhance, MsgEnhanceSafety} : enhanceRejected(c, msg)
  \/ handleRefine

\* The analysis panel: its controls, Enhance with a storage that accepts or
\* refuses the write, the completion of the enhance and refine.
SpecSettings == InitAwaiting /\ [][NextSettings]_vars

\* ---------------------------------------------------------------- chat
MaxMessages == 5      \* longest message list: the greeting and two exchanges
MaxTokens == 3        \* most chunks one response stream delivers

\* Text typed into the chat input, and the chunk texts of a response.
ChatInputs == {<<>>, <<" ">>, <<"h", "i">>}
Tokens == {<<"a">>, <<"b">>}
\* How often React runs a state updater function for one update: once, or
\* twice where it double-invokes updaters (they are expected to be pure).
UpdaterRuns == {1, 2}
MsgChat == "Sorry, I couldn't get a response. Failed to fetch"

ChatEvent(c, op) ==
  /\ chat' = c
  /\ ev' = Ev(op, Null)
  /\ UNCHANGED <<session, panel, cropper, comparator, pointer, canvas, settings,
                 selectedSuggestions, storage, calls, budget>>

\* the input box, disabled while loading
setUserInput(text) ==
  /\ ~chat.isLoading
  /\ ChatEvent([chat EXCEPT !.userInput = text], "setUserInput")

\* handleSubmit up to the await of sendMessageStream
handleSubmit ==
  /\ Trim(chat.userInput) # <<>>
  /\ ~chat.isLoading
  /\ Len(chat.messages) + 2 <= MaxMessages
  /\ ChatEvent([chat EXCEPT
                  !.isLoading = TRUE, !.error = NullStr, !.userInput = <<>>,
                  !.messages = chat.messages \o
                    <<[role |-> "user", text |-> chat.userInput],
                      [role |-> "model", text |-> <<>>]>>,
                  !.stream = "awaiting", !.arrived = <<>>],
               "submit")

\* sendMessageStream resolved with the stream
streamOpened ==
  /\ chat.stream = "awaiting"
  /\ ChatEvent([chat EXCEPT !.stream = "open"], "streamOpened")

\* The updater of the loop: it copies the list but not its messages, and
\* appends the chunk text to the last message object in place, so each run
\* of the updater appends it once more.
RECURSIVE AppendChunk(_, _, _)
AppendChunk(messages, chunkText, runs) ==
  IF runs = 0 THEN messages
  ELSE LET n == Len(messages)
           newMessages == [messages EXCEPT ![n].text = messages[n].text \o chunkText]
       IN AppendChunk(newMessages, chunkText, runs - 1)

\* one iteration of for await (const chunk of stream)
streamChunk(chunkText, runs) ==
  /\ chat.stream = "open"
  /\ Len(chat.arrived) < MaxTokens
  /\ ChatEvent([chat EXCEPT
                  !.messages = AppendChunk(chat.messages, chunkText, runs),
                  !.arrived = Append(chat.arrived, chunkText)],
               "streamChunk")

\* the stream ended: finally
streamDone ==
  /\ chat.stream = "open"
  /\ ChatEvent([chat EXCEPT !.isLoading = FALSE, !.stream = "none"], "streamDone")

\* variant: the failure keeps the message in progress
streamFailedKeeping ==
  /\ chat.stream \in {"awaiting", "open"}
  /\ ChatEvent([chat EXCEPT !.error = MsgChat, !.isLoading = FALSE, !.stream = "none"],
               "streamFailed")

\* sendMessageStream rejected or the stream threw: catch and finally
streamFailed ==
  /\ chat.stream \in {"awaiting", "open"}
  /\ ChatEvent([chat EXCEPT
                  !.error = MsgChat,
                  !.messages = SubSeq(chat.messages, 1, Len(chat.messages) - 1),
                  !.isLoading = FALSE, !.stream = "none"],
               "streamFailed")

NextChat ==
  \/ \E text \in ChatInputs : setUserInput(text)
  \/ handleSubmit
  \/ streamOpened
  \/ \E chunkText \in Tokens, runs \in UpdaterRuns : streamChunk(chunkText, runs)
  \/ streamDone
  \/ streamFailed

\* The agent tab: typing, submitting, and every course of the response
\* stream.
SpecChat == Init /\ [][NextChat]_vars

\* ---------------------------------------------------------------- progress
\* The session and the chat side by side, with one way of each input: a
\* photo to upload (twice if the user wants), the analysis, the enhancement
\* with refine, the resets, and a chat whose responses stream one token.
LiveEvent ==
  \/ handleImageUpload(DoneFile)
  \/ analyzeNow
  \/ cancelPreview
  \/ handleEnhanceClick(TRUE)
  \/ handleRefine
  \/ startOver
  \/ tryAgain
  \/ setUserInput(<<"h", "i">>)
  \/ handleSubmit
  \/ streamChunk(<<"a">>, 1)

\* The completions of the calls of each kind.
LoadSettled == \E c \in BagToSet(calls) : loadResolved(c) \/ loadRejected(c)
AnalyzeSettled ==
  \E c \in BagToSet(calls) : analyzeResolved(c, <<"s1">>) \/ analyzeRejected(c)
EnhanceSettled ==
  \E c \in BagToSet(calls) : enhanceResolved(c, 2) \/ enhanceRejected(c, MsgEnhance)
StreamSettled == streamOpened \/ streamDone \/ streamFailed

NextLive ==
  LiveEvent \/ LoadSettled \/ AnalyzeSettled \/ EnhanceSettled \/ StreamSettled

\* The state after construction, with room for a load, an analysis and an
\* enhancement outstanding together.
InitLive ==
  /\ appState = IDLE
  /\ error = NullStr
  /\ originalImage = Null
  /\ imageToProcess = Null
  /\ originalFilename = <<>>
  /\ imageHistory = <<>>
  /\ currentImageIndex = -1
  /\ analysis = <<>>
  /\ suggestions = <<>>
  /\ enhancementSummary = <<>>
  /\ generationPrompt = <<>>
  /\ panel = InitPanel
  /\ cropper = InitCropper
  /\ comparator = InitComparator
  /\ pointer = NoPointer
  /\ canvas = NoCanvas
  /\ settings = InitSettings
  /\ selectedSuggestions = <<>>
  /\ storage = NoEntry
  /\ chat = InitChat
  /\ calls = EmptyBag
  /\ budget = MaxLiveCalls
  /\ ev = NoEv

\* Every remote call settles: an outstanding promise of each kind is
\* eventually resolved or rejected, and an open stream eventually ends.
SpecLive ==
  /\ InitLive /\ [][NextLive]_vars
  /\ WF_vars(LoadSettled) /\ WF_vars(AnalyzeSettled) /\ WF_vars(EnhanceSettled)
  /\ WF_vars(streamOpened \/ streamFailed) /\ WF_vars(streamDone \/ streamFailed)

\* ================================================================ claims
EditResolvedOps == {"styleResolved", "customResolved", "blurResolved"}
ResetOps == {"cancelPreview", "startOver", "tryAgain"}
CountOf(kinds) ==
  BagCardinality([c \in {d \in BagToSet(calls) : d.kind \in kinds} |-> CopiesIn(c, calls)])

\* C1: after any sequence of enhance completions, creative-edit completions,
\* undo, refine and reset, currentImageIndex is a valid index into
\* imageHistory, and it is -1 exactly when imageHistory is empty.
C1_CursorValid ==
  IF imageHistory = <<>> THEN currentImageIndex = -1
  ELSE currentImageIndex \in 0..(Len(imageHistory) - 1)

\* C1 witness: an edit completed on top of the enhanced image and was undone
C1_Witness ==
  ev.op = "undo" /\ Len(imageHistory) = 3 /\ currentImageIndex = 1

\* C2 (as claimed): every completed edit truncates the history to the entries
\* up to the cursor as it is when the image is appended, appends the image
\* and moves the cursor to the new last index.
C2_AppendAtCurrentCursor ==
  [][ev'.op \in EditResolvedOps =>
       /\ imageHistory' = Append(Slice(imageHistory, currentImageIndex + 1), ev'.img)
       /\ currentImageIndex' = Len(imageHistory') - 1]_vars

\* C3: undo leaves the history's contents and length unchanged; it
\* decrements the cursor by exactly one when the cursor is above 0 and
\* changes nothing otherwise, so on a history of at most one entry the
\* current image stays the same.
C3_Undo ==
  [][ev'.op = "undo" =>
       /\ imageHistory' = imageHistory
       /\ currentImageIndex' = IF currentImageIndex <= 0 THEN currentImageIndex
                               ELSE currentImageIndex - 1
       /\ (Len(imageHistory) <= 1 => enhancedImage' = enhancedImage)]_vars

\* C3 witness: undo arrived at the pre-enhancement image under later entries
C3_Witness ==
  ev.op = "undo" /\ appState = DONE /\ currentImageIndex = 0 /\ Len(imageHistory) >= 2

\* C4 (as claimed): a successful enhance moves the session from Enhancing to
\* Done and makes the history exactly [imageToProcess, result] with the
\* cursor at 1; a failed one moves it from Enhancing to Error and leaves the
\* history and the cursor as they were.
C4_EnhanceCompletion ==
  [][/\ ev'.op = "enhanceResolved" =>
          /\ appState = ENHANCING /\ appState' = DONE
          /\ imageHistory' = <<imageToProcess', ev'.img>>
          /\ currentImageIndex' = 1
     /\ ev'.op = "enhanceRejected" =>
          /\ appState = ENHANCING /\ appState' = ERROR
          /\ imageHistory' = imageHistory
          /\ currentImageIndex' = currentImageIndex]_vars

\* C5 (as claimed): within a session (a reset apart) the history gets shorter
\* only in the truncation step of an append.
C5_ShrinksOnlyInAppend ==
  [][Len(imageHistory') < Len(imageHistory) =>
       ev'.op \in EditResolvedOps \cup ResetOps]_vars

\* C5 (amended): the history gets shorter only in the truncation step of an
\* append, when a successful enhance replaces it by [imageToProcess, result],
\* or in a full reset; undo, refine and every other step keep its length.
C5_ShrinksOnlyInAppendOrReseed ==
  [][Len(imageHistory') < Len(imageHistory) =>
       ev'.op \in EditResolvedOps \cup ResetOps \cup {"enhanceResolved"}]_vars

\* C5 witness: an enhance is outstanding over a three-entry history, which
\* its success replaces by two entries
C5_Witness ==
  appState = ENHANCING /\ Len(imageHistory) = 3 /\ CountOf({"enhance"}) = 1

\* C6: in any state other than AwaitingConfirmation (Analyzing in particular)
\* enhance cannot be invoked: no step taken there starts an enhance call, and
\* the step that starts one is taken in AwaitingConfirmation.
C6_EnhanceGated ==
  [][/\ appState # AWAITING_CONFIRMATION =>
          CountOf({"enhance"})' <= CountOf({"enhance"})
     /\ ev'.op = "enhance" => appState = AWAITING_CONFIRMATION]_vars

\* C6 witness: Analyzing with an analysis outstanding, suggestions of an
\* earlier analysis still stored, and no enhance call
C6_Witness ==
  /\ appState = ANALYZING /\ CountOf({"analyze"}) = 1 /\ CountOf({"enhance"}) = 0
  /\ suggestions # <<>> /\ imageToProcess # Null

\* C7 (as claimed): at most one of the generate, analyze and enhance calls is
\* outstanding at any time.
C7_OneSessionCall == CountOf({"generate", "analyze", "enhance"}) <= 1

\* C8 (as claimed): the only step that changes the session while it is in
\* Error is the acknowledgment, which leaves every field at its default.
C8_ErrorOnlyAcknowledged ==
  [][(appState = ERROR /\ session' # session) =>
       /\ ev'.op = "tryAgain"
       /\ appState' = IDLE /\ error' = NullStr
       /\ originalImage' = Null /\ imageToProcess' = Null
       /\ imageHistory' = <<>> /\ currentImageIndex' = -1
       /\ analysis' = <<>> /\ enhancementSummary' = <<>>
       /\ suggestions' = <<>> /\ originalFilename' = <<>>]_vars

\* C9: an upload of a file whose media type does not start with "image/"
\* puts the session in Error with a message, leaves originalImage and
\* imageToProcess as they were and starts no file read.
C9_InvalidUpload ==
  [][\A file \in Files :
       (file.type[1] # "image" /\ handleImageUpload(file)) =>
         /\ appState' = ERROR /\ appState' # PREVIEW
         /\ error' \notin {NullStr, EmptyStr}
         /\ originalImage' = originalImage /\ imageToProcess' = imageToProcess
         /\ calls' = calls]_vars

\* C9 witness: the session after a PDF was uploaded
C9_Witness ==
  ev.op = "uploadRejected" /\ appState = ERROR /\ error = MsgInvalidFile

\* C10 (as claimed): every change of appState is one of the listed edges.
AllowedEdges ==
  {<<IDLE, PREVIEW>>, <<IDLE, GENERATING>>, <<GENERATING, PREVIEW>>,
   <<PREVIEW, CROPPING>>, <<PREVIEW, ANALYZING>>, <<PREVIEW, IDLE>>,
   <<CROPPING, ANALYZING>>, <<CROPPING, PREVIEW>>,
   <<ANALYZING, AWAITING_CONFIRMATION>>, <<ANALYZING, ERROR>>,
   <<AWAITING_CONFIRMATION, ENHANCING>>,
   <<ENHANCING, DONE>>, <<ENHANCING, ERROR>>,
   <<DONE, AWAITING_CONFIRMATION>>, <<DONE, IDLE>>,
   <<ERROR, IDLE>>, <<IDLE, ERROR>>, <<GENERATING, ERROR>>}

C10_OnlySpecifiedEdges ==
  [][appState' # appState => <<appState, appState'>> \in AllowedEdges]_vars

\* C11: an analysis that succeeds while the session is in Analyzing stores the
\* returned analysis text and suggestion list and moves the session to
\* AwaitingConfirmation; one that fails moves it to Error with a non-empty
\* message and leaves analysis and suggestions as they were.
C11_AnalyzeCompletion ==
  [][\A c \in BagToSet(calls) :
       /\ \A sugg \in SuggestionLists :
            (appState = ANALYZING /\ analyzeResolved(c, sugg)) =>
              /\ analysis' = AnalysisOf(c.img)
              /\ suggestions' = sugg
              /\ appState' = AWAITING_CONFIRMATION
       /\ (appState = ANALYZING /\ analyzeRejected(c)) =>
              /\ appState' = ERROR
              /\ error' \notin {NullStr, EmptyStr}
              /\ analysis' = analysis
              /\ suggestions' = suggestions]_vars

\* C11 witness: the analysis of the previewed image has been stored
C11_Witness ==
  /\ ev.op = "analyzeResolved" /\ appState = AWAITING_CONFIRMATION
  /\ analysis = AnalysisOf(imageToProcess) /\ suggestions \in SuggestionLists

\* C12: refine is taken in Done, moves the session to AwaitingConfirmation
\* and clears the enhancement summary; imageHistory, the cursor,
\* imageToProcess, originalImage, analysis and suggestions stay as they were.
C12_RefineFrame ==
  [][handleRefine =>
       /\ appState = DONE /\ appState' = AWAITING_CONFIRMATION
       /\ enhancementSummary' = <<>>
       /\ imageHistory' = imageHistory /\ currentImageIndex' = currentImageIndex
       /\ imageToProcess' = imageToProcess /\ originalImage' = originalImage
       /\ analysis' = analysis /\ suggestions' = suggestions]_vars

\* C12 witness: refine was taken over a history extended by a creative edit
C12_Witness ==
  /\ ev.op = "refine" /\ appState = AWAITING_CONFIRMATION
  /\ Len(imageHistory) = 3 /\ currentImageIndex = 2
  /\ enhancementSummary = <<>> /\ suggestions # <<>>

\* C13: undo and the completion of a creative edit (style, custom prompt,
\* background blur) change nothing but the history and its cursor: appState
\* is unchanged (Done stays Done) and imageToProcess, originalImage,
\* analysis, suggestions and the summary are as before.
C13_EditFrame ==
  [][(\/ handleUndo
      \/ \E c \in BagToSet(calls), img \in Images :
           styleResolved(c, img) \/ customResolved(c, img) \/ blurResolved(c, img)) =>
       /\ appState' = appState
       /\ (appState = DONE => appState' = DONE)
       /\ imageToProcess' = imageToProcess /\ originalImage' = originalImage
       /\ analysis' = analysis /\ suggestions' = suggestions
       /\ enhancementSummary' = enhancementSummary
       /\ error' = error /\ originalFilename' = originalFilename]_vars

\* C13 witness: a blur completed in Done on top of the enhanced image
C13_Witness ==
  /\ ev.op = "blurResolved" /\ appState = DONE
  /\ Len(imageHistory) = 3 /\ currentImageIndex = 2
  /\ enhancementSummary # <<>>

\* C14: when a panel call fails (suggest ideas, apply style, custom prompt,
\* background blur) the session's state, error, history and cursor are left
\* as they were, and the panel that issued the call, still on screen in
\* Done, holds a non-empty error message.
C14_PanelFailure ==
  [][\A c \in BagToSet(calls) :
       (ideasRejected(c) \/ styleRejected(c) \/ customRejected(c) \/ blurRejected(c)) =>
         /\ appState' = appState /\ error' = error
         /\ imageHistory' = imageHistory /\ currentImageIndex' = currentImageIndex
         /\ c.live => /\ appState' = DONE
                      /\ panel'.creativeError \notin {NullStr, EmptyStr}]_vars

\* C14 witness: a style call failed under the panel that is on screen
C14_Witness ==
  /\ ev.op = "styleRejected" /\ appState = DONE
  /\ panel.creativeError = MsgStyle /\ panel.creativeState = "error"
  /\ Len(imageHistory) = 2 /\ currentImageIndex = 1

\* C15 (as claimed): after a panel call fails, the control that started it can
\* be used again: Suggest Ideas after a failed ideas call, the style buttons
\* after a failed style call, Apply Custom Edit after a failed custom prompt
\* and Apply AI Blur after a failed blur (for a call of the panel on screen).
C15_ReenabledAfterFailure ==
  [][\A c \in BagToSet(calls) :
       c.live =>
         /\ ideasRejected(c) => SuggestIdeasAvailable'
         /\ styleRejected(c) => StyleAvailable'
         /\ customRejected(c) => CustomPromptAvailable'
         /\ blurRejected(c) => BlurAvailable']_vars

\* C16 (as claimed): when two panel edits were outstanding together in Done
\* and both succeeded, one completion right after the other, both result
\* images are entries of the history after the second completion.
C16_NoLostUpdate ==
  [][(/\ ResultDisplayMounted
      /\ ev.op \in EditResolvedOps /\ ev'.op \in EditResolvedOps
      /\ imageHistory' # imageHistory) =>
       {ev.img, ev'.img} \subseteq Range(imageHistory')]_vars

LiveCount(kind) ==
  BagCardinality([c \in {d \in BagToSet(calls) : d.kind = kind /\ d.live}
                    |-> CopiesIn(c, calls)])

\* C17 (as claimed): of each panel action (ideas, style, custom prompt, blur)
\* at most one call started from the panel on screen is outstanding.
C17_OneCallPerAction == \A kind \in PanelKinds : LiveCount(kind) <= 1

TriggerOps ==
  {"generate", "analyze", "cropConfirm", "enhance", "ideas", "style", "custom", "blur"}
RemoteKinds == {"generate", "analyze", "enhance"} \cup PanelKinds

RemoteSettledOps ==
  {"generateResolved", "generateRejected", "analyzeResolved", "analyzeRejected",
   "enhanceResolved", "enhanceRejected", "ideasResolved", "ideasRejected",
   "styleResolved", "styleRejected", "customResolved", "customRejected",
   "blurResolved", "blurRejected"}

Clamp(v, lo, hi) == IF v < lo THEN lo ELSE IF v > hi THEN hi ELSE v

\* C19: the divider position is always within [0, 100]; after a move applied
\* during a drag with the pointer at x over a container of positive width it
\* equals 100 * clamp(x - left, 0, width) / width, which is 100 beyond the
\* right edge and 0 before the left edge.
C19_SliderClamped ==
  LET pos == comparator.sliderPosition
      rect == pointer.rect
      x == pointer.clientX
  IN /\ pos[2] > 0 /\ 0 <= pos[1] /\ pos[1] <= 100 * pos[2]
     /\ (ev.op \in {"mouseMove", "touchMove"} /\ comparator.isDragging) =>
          /\ pos[1] * rect.width = 100 * Clamp(x - rect.left, 0, rect.width) * pos[2]
          /\ (x >= rect.left + rect.width => pos = <<100, 1>>)
          /\ (x <= rect.left => pos = <<0, 1>>)

\* C19 witness: a touch drag moved past the right edge of the container
C19_Witness ==
  /\ ev.op = "touchMove" /\ comparator.isDragging
  /\ pointer.clientX > pointer.rect.left + pointer.rect.width
  /\ comparator.sliderPosition = <<100, 1>>

\* C20 (as claimed): isDragging and isZoomed are never both true.
C20_DragDisablesZoom == ~(comparator.isDragging /\ comparator.isZoomed)

\* C21: a mouse move while not dragging changes only the zoom focal point,
\* to the pointer's position relative to the container; a mouse move while
\* dragging changes only the divider position; leaving the container turns
\* zoom off and changes neither the drag state nor the divider position.
C21_MoveAndLeaveFrame ==
  [][LET rect == pointer'.rect
         x == pointer'.clientX
         y == pointer'.clientY
     IN /\ (ev'.op = "mouseMove" /\ ~comparator.isDragging) =>
             comparator' = [comparator EXCEPT !.transformOrigin =
                              <<Percent(x - rect.left, rect.width),
                                Percent(y - rect.top, rect.height)>>]
        /\ (ev'.op = "mouseMove" /\ comparator.isDragging) =>
             \E pos \in {comparator'.sliderPosition} :
               comparator' = [comparator EXCEPT !.sliderPosition = pos]
        /\ ev'.op = "mouseLeave" =>
             comparator' = [comparator EXCEPT !.isZoomed = FALSE]]_vars

\* C21 witness: the mouse leaves the container in the middle of a drag that
\* has moved the divider, after a hover had moved the focal point
C21_Witness ==
  /\ ev.op = "mouseLeave" /\ comparator.isDragging /\ ~comparator.isZoomed
  /\ comparator.sliderPosition # Fifty
  /\ comparator.transformOrigin # <<Fifty, Fifty>>

\* The selection as it lies on the screen, in pixels of the displayed image:
\* a percent selection is that share of the displayed size.
OnScreen(crop, img) ==
  IF crop.unit = "%"
    THEN [x |-> Times(crop.x, Frac(img.width, 100)),
          y |-> Times(crop.y, Frac(img.height, 100)),
          width |-> Times(crop.width, Frac(img.width, 100)),
          height |-> Times(crop.height, Frac(img.height, 100))]
    ELSE [x |-> crop.x, y |-> crop.y, width |-> crop.width, height |-> crop.height]

\* C22 (as claimed): whatever the unit of the confirmed selection, the
\* extracted rectangle is the on-screen selection scaled by
\* naturalWidth/width and naturalHeight/height (origin and size), the
\* extracted image has the integer part of that size, and its media type is
\* the source image's.
C22_ExtractionScaled ==
  canvas.drawn =>
    LET img == canvas.img
        sel == OnScreen(canvas.crop, img)
        scaleX == Frac(img.naturalWidth, img.width)
        scaleY == Frac(img.naturalHeight, img.height)
    IN /\ canvas.sx = Times(sel.x, scaleX)
       /\ canvas.sy = Times(sel.y, scaleY)
       /\ canvas.sw = Times(sel.width, scaleX)
       /\ canvas.sh = Times(sel.height, scaleY)
       /\ canvas.width = Floor(Times(sel.width, scaleX))
       /\ canvas.height = Floor(Times(sel.height, scaleY))
       /\ canvas.mimeType = canvas.sourceType

\* C23 (as claimed): the rectangle passed to the extraction has a
\* non-negative origin and size and lies inside
\* [0, naturalWidth] x [0, naturalHeight].
C23_ExtractionInBounds ==
  canvas.drawn =>
    /\ canvas.sx[1] >= 0 /\ canvas.sy[1] >= 0
    /\ canvas.sw[1] >= 0 /\ canvas.sh[1] >= 0
    /\ LessEq(Plus(canvas.sx, canvas.sw), <<canvas.img.naturalWidth, 1>>)
    /\ LessEq(Plus(canvas.sy, canvas.sh), <<canvas.img.naturalHeight, 1>>)

ConfirmOps == {"cropConfirm", "cropNoContext", "cropThrows"}

\* C24 (as claimed): a confirm without a selection, or with a selection of
\* zero width or zero height, produces no image and starts no analysis: the
\* session stays in Cropping.
C24_EmptySelectionRejected ==
  [][(/\ ev'.op \in ConfirmOps
      /\ \/ cropper.crop = NoCrop
         \/ cropper.crop.width[1] = 0
         \/ cropper.crop.height[1] = 0)
     => /\ appState' = CROPPING
        /\ imageToProcess' = imageToProcess
        /\ calls' = calls]_vars

\* C25: Cancel in the cropper takes the session from Cropping to Preview
\* and changes no other session field: originalImage, imageToProcess, the
\* history and its cursor, the analysis and the outstanding calls are kept.
C25_CancelCropFrame ==
  [][ev'.op = "cancelCrop" =>
       /\ appState = CROPPING /\ appState' = PREVIEW
       /\ UNCHANGED <<error, originalImage, imageToProcess, originalFilename,
                      imageHistory, currentImageIndex, analysis, suggestions,
                      enhancementSummary, generationPrompt, calls>>]_vars

\* C25 witness: back in Preview after a cancelled crop, the picture in place
C25_Witness ==
  /\ ev.op = "cancelCrop" /\ appState = PREVIEW
  /\ originalImage # Null /\ imageToProcess = originalImage
  /\ cropper = InitCropper

\* C26 (as claimed): a crop confirmation takes the session from Cropping
\* straight to Analyzing, makes the cropped image imageToProcess and the
\* image of the analyze call and leaves originalImage alone; from there the
\* cropped image stays in place for the enhance that follows, so the step
\* after the confirmation neither replaces imageToProcess or originalImage
\* nor shows Preview.
C26_CropConfirmFlow ==
  [][/\ ev'.op = "cropConfirm" =>
          /\ appState = CROPPING /\ appState' = ANALYZING
          /\ imageToProcess' = ev'.img
          /\ originalImage' = originalImage
          /\ \E c \in BagToSet(calls') :
               /\ c.kind = "analyze" /\ c.img = ev'.img
               /\ CopiesIn(c, calls') = CopiesIn(c, calls) + 1
     /\ ev.op = "cropConfirm" =>
          /\ imageToProcess' = imageToProcess
          /\ originalImage' = originalImage
          /\ appState' \in {ANALYZING, AWAITING_CONFIRMATION, ERROR}]_vars

\* C27 (as claimed): a local failure during crop confirmation (no 2D
\* context, or an exception while rasterizing) puts the session in Error
\* with a message.
C27_CropFailureToError ==
  [][ev'.op \in {"cropNoContext", "cropThrows"} =>
       appState' = ERROR /\ error' # NullStr]_vars

\* The enhance call an Enhance click has just made.
Started(c) == c.kind = "enhance" /\ CopiesIn(c, calls') = CopiesIn(c, calls) + 1

\* C28 (as claimed): right after every Enhance click an entry is stored if
\* and only if the save-settings box was checked at the click, and a stored
\* entry holds the strength and detail level passed to that enhance call.
C28_StoredIffChecked ==
  [][ev'.op = "enhance" =>
       /\ storage' # NoEntry <=> settings.saveSettings
       /\ storage' # NoEntry =>
            \E c \in BagToSet(calls') :
              /\ Started(c)
              /\ Parse(storage')["strength"] = c.opts[1]
              /\ Parse(storage')["detailLevel"] = c.opts[2]]_vars

\* C28 (amended): after an Enhance click with the box unchecked no entry is
\* stored; with the box checked the entry holds the strength and detail
\* level passed to that enhance call, unless the storage refused the write:
\* then the storage is as it was before the click.  The enhance call is made
\* in every case, with the panel's strength and detail level.
C28_StoredIffCheckedAndWritten ==
  [][ev'.op = "enhance" =>
       \E c \in BagToSet(calls') :
         /\ Started(c)
         /\ c.opts = <<settings.strength, settings.detailLevel>>
         /\ ~settings.saveSettings => storage' = NoEntry
         /\ settings.saveSettings =>
              \/ /\ storage' # NoEntry
                 /\ Parse(storage')["strength"] = c.opts[1]
                 /\ Parse(storage')["detailLevel"] = c.opts[2]
              \/ storage' = storage]_vars

\* C28 witness: Enhance was clicked with the box checked and the write was
\* refused; the entry of an earlier visit is still stored and differs from
\* what the enhance call was given
C28_Witness ==
  /\ ev.op = "enhance" /\ appState = ENHANCING /\ storage # NoEntry
  /\ \E c \in BagToSet(calls) :
       /\ c.kind = "enhance"
       /\ Parse(storage)["strength"] # c.opts[1]
       /\ Parse(storage)["detailLevel"] # c.opts[2]

\* C29: when the analysis panel has just opened (after an analysis or after
\* a refine) and no entry is stored, strength is Natural, the detail level
\* is 50 and the save-settings box is unchecked; with an entry stored,
\* strength and detail level are the stored values and the box is checked.
\* Saving what was loaded gives the stored entry again, and loading a saved
\* entry gives back the saved values.
C29_LoadOnOpen ==
  /\ (AnalysisPanelRendered /\ ev.op \in {"analyzeResolved", "refine"}) =>
       IF storage = NoEntry
         THEN settings = [strength |-> NATURAL, detailLevel |-> 50, saveSettings |-> FALSE]
         ELSE /\ settings.strength = Parse(storage)["strength"]
              /\ settings.detailLevel = Parse(storage)["detailLevel"]
              /\ settings.saveSettings
              /\ Stringify([strength |-> settings.strength,
                            detailLevel |-> settings.detailLevel]) = storage
  /\ \A s \in Strengths, d \in DetailLevels :
       LET back == Parse(Stringify([strength |-> s, detailLevel |-> d]))
       IN back["strength"] = s /\ back["detailLevel"] = d

\* C29 witness: the panel reopened by a refine shows the strength and detail
\* level that the Enhance click before it stored
C29_Witness ==
  /\ ev.op = "refine" /\ AnalysisPanelRendered
  /\ storage = Stringify([strength |-> STRONG, detailLevel |-> 75])
  /\ settings = [strength |-> STRONG, detailLevel |-> 75, saveSettings |-> TRUE]

RECURSIVE Concat(_)
Concat(chunks) == IF chunks = <<>> THEN <<>> ELSE Head(chunks) \o Concat(Tail(chunks))

\* C30 (as claimed): while a response stream is open, the last message is
\* the model message in progress and its text is the concatenation of the
\* chunks that have arrived, in order and each once; a chunk's arrival
\* changes no other message.
C30_TokensAppended ==
  [][/\ chat'.stream = "open" =>
          LET last == chat'.messages[Len(chat'.messages)]
          IN last.role = "model" /\ last.text = Concat(chat'.arrived)
     /\ ev'.op = "streamChunk" =>
          /\ Len(chat'.messages) = Len(chat.messages)
          /\ \A i \in 1..(Len(chat.messages) - 1) :
               chat'.messages[i] = chat.messages[i]]_vars

\* C31: a failure of the chat stream, before the first chunk or after some,
\* removes the model message in progress with every chunk it received, keeps
\* the user's message and everything before it, sets an error message and
\* clears the loading flag.
C31_StreamFailure ==
  [][ev'.op = "streamFailed" =>
       LET n == Len(chat.messages)
       IN /\ chat.messages[n].role = "model"
          /\ chat.messages[n - 1].role = "user"
          /\ chat'.messages = SubSeq(chat.messages, 1, n - 1)
          /\ chat'.error # NullStr
          /\ ~chat'.isLoading
          /\ chat'.stream = "none"]_vars

\* C31 witness: the stream failed after two chunks; the list ends with the
\* user's message
C31_Witness ==
  /\ ev.op = "streamFailed" /\ Len(chat.arrived) = 2
  /\ chat.messages[Len(chat.messages)].role = "user"
  /\ chat.error = MsgChat /\ ~chat.isLoading

\* The bands in order of intensity, and the band of a level counted from the
\* thresholds below it.
Bands ==
  <<"very subtle, barely noticeable", "subtle and natural",
    "moderate, similar to a portrait lens",
    "strong and prominent, making the subject stand out significantly",
    "maximum, creating a very dreamy and artistic effect">>
BandOf(level) == 1 + Cardinality({t \in {10, 30, 60, 85} : level > t})
Rank(text) == CHOOSE i \in DOMAIN Bands : Bands[i] = text

\* C32: every blur call in flight was issued for a level in 1..100 with the
\* band of that level (<=10, <=30, <=60, <=85, >85); the bands do not
\* decrease as the level grows; no call is issued for level 0, for which
\* applyBackgroundBlur returns the image it was given.
C32_BlurBands ==
  /\ \A c \in Pending("blur") :
       /\ c.opts[1] \in 1..MaxBlur
       /\ c.opts[2] = Bands[BandOf(c.opts[1])]
  /\ \A a \in 1..MaxBlur : \A b \in a..MaxBlur :
       /\ getBlurLevelPrompt(a) \in Range(Bands)
       /\ Rank(getBlurLevelPrompt(a)) <= Rank(getBlurLevelPrompt(b))
  /\ \A image \in Images, generated \in Images :
       applyBackgroundBlur(image, 0, generated) = image

\* C32 witness: a blur call in flight for level 10, the top of the first band
C32_Witness ==
  /\ ev.op = "blur" /\ panel.isApplyingBlur
  /\ \E c \in Pending("blur") : c.opts = <<10, Bands[1]>>

\* The session fields as resetState leaves them.
SessionDefaults ==
  /\ imageHistory = <<>>
  /\ currentImageIndex = -1
  /\ originalImage = Null
  /\ imageToProcess = Null
  /\ error = NullStr

\* C33: whenever the session is in Idle, the history is empty, the cursor is
\* -1, originalImage and imageToProcess are null and the error is null; a
\* creative edit in flight at start over writes nothing to the history when
\* it completes.
C33_IdleDefaults == appState = IDLE => SessionDefaults

\* C34: whenever the session is in Done, imageToProcess is non-null, the
\* history has at least two entries, the cursor is inside it (the result
\* view has an image to show) and history entry 0 is imageToProcess.
C34_DoneShape ==
  appState = DONE =>
    /\ imageToProcess # Null
    /\ Len(imageHistory) >= 2
    /\ currentImageIndex \in 0..(Len(imageHistory) - 1)
    /\ imageHistory[1] = imageToProcess

\* C35: whenever the session is in AwaitingConfirmation, the stored analysis
\* is the one the service produced for the image now in imageToProcess.
C35_AnalysisOfCurrentImage ==
  appState = AWAITING_CONFIRMATION =>
    /\ imageToProcess # Null
    /\ analysis = AnalysisOf(imageToProcess)

\* C36: an enhance that succeeds after a refine leaves the history
\* [imageToProcess, result] with the cursor on the result, and an edit
\* triggered under the result view that the refine closed, completing in the
\* new Done, leaves that history and cursor as they are.
C36_RefinedHistoryKept ==
  [][\A c \in BagToSet(calls), img \in Images :
       /\ enhanceResolved(c, img) =>
            /\ imageHistory' = <<imageToProcess', img>>
            /\ currentImageIndex' = 1
       /\ (/\ ~c.live /\ appState = DONE
           /\ (styleResolved(c, img) \/ customResolved(c, img) \/ blurResolved(c, img))) =>
            /\ imageHistory' = imageHistory
            /\ currentImageIndex' = currentImageIndex]_vars

\* C37: when an edit of the result view on screen completes, the entries
\* kept are those up to the cursor as it is when the result arrives (an undo
\* made meanwhile is respected), followed by the new image.
C37_UndoRespected ==
  [][\A c \in BagToSet(calls), img \in Images :
       (/\ c.live /\ appState = DONE
        /\ (styleResolved(c, img) \/ customResolved(c, img) \/ blurResolved(c, img))) =>
         /\ imageHistory' = Append(Slice(imageHistory, currentImageIndex + 1), ev'.img)
         /\ currentImageIndex' = Len(imageHistory') - 1]_vars

\* C38: the session is in Error exactly when the error field holds a
\* message.
C38_ErrorIffMessage == (appState = ERROR) <=> (error # NullStr)

\* C39: provided every remote call settles, Analyzing leads to
\* AwaitingConfirmation or Error, Enhancing leads to Done or Error, and a chat
\* submission leads to its loading flag being cleared.
C39_LoadingTransient ==
  /\ (appState = ANALYZING) ~> (appState \in {AWAITING_CONFIRMATION, ERROR})
  /\ (appState = ENHANCING) ~> (appState \in {DONE, ERROR})
  /\ chat.isLoading ~> ~chat.isLoading

\* C39 witness: the session reached Done and a chat response ended with the
\* loading flag cleared
C39_Witness ==
  /\ appState = DONE /\ ev.op = "streamDone"
  /\ ~chat.isLoading /\ Len(chat.messages) = 3 /\ chat.arrived = <<<<"a">>>>

\* C40: every enhance call is issued with the checked suggestions, a
\* non-empty list each of whose entries is one of the suggestions of the
\* stored analysis, whatever checkboxes were clicked before.
C40_SelectionSent ==
  [][ev'.op = "enhance" =>
       /\ selectedSuggestions # <<>>
       /\ Range(selectedSuggestions) \subseteq Range(suggestions)
       /\ \E c \in BagToSet(calls') :
            /\ c.kind = "enhance" /\ c.sel = selectedSuggestions
            /\ CopiesIn(c, calls') = CopiesIn(c, calls) + 1]_vars

====
